---- MODULE Spec2Model ----
(***************************************************************************)
(* The analyze endpoint of mindNotes (src/app/api/analyze/route.ts): input *)
(* validation, the two rate-limit gates, the content-keyed cache, the two  *)
(* provider calls and the local generators behind them; and the search     *)
(* endpoint (src/unnamed/part_000 208-670): the tiered text search, the    *)
(* embedding cache and the choice between text, semantic and fallback      *)
(* responses.                                                              *)
(*                                                                         *)
(* Time is the wall clock in milliseconds (Date.now()); the handler works  *)
(* on whole seconds (Math.floor(Date.now() / 1000)) and the store's TTLs   *)
(* are given in seconds.  The store expires keys by the same clock.  In    *)
(* Analyze and Search a request is handled at the instant it arrives, one  *)
(* request at a time; Start to SetCache run the analyze handler one await  *)
(* at a time, two requests interleaving.                                   *)
(* Strings are sequences of one-character strings.                         *)
(***************************************************************************)
EXTENDS Integers, Sequences, FiniteSets, TLC

VARIABLES
    redis,      \* whether the store client was constructed (route.ts 12-17)
    clock,      \* Date.now(), in milliseconds
    counts,     \* user -> the key user:<id>:request_count  [val, exp]
    lastTimes,  \* user -> the key user:<id>:last_request_time [val, exp]
    cache,      \* cache key -> the key summary:<hash> [val, exp, from, src]
    resp,       \* the response of the request handled last
    log,        \* what the request handled last did (history variable)
    admittedInWindow, \* user -> admitted requests since the counter key was created
    lastArrival,      \* user -> clock at the arrival of the last admitted request, 0 if none
    retryDue,   \* user -> arrival + retryAfter of the user's last request if it was a 429, else 0
    notes,      \* the rows of the table notes, in the order a scan finds them
    bookmarks,  \* the rows of the table bookmarks
    embeddings, \* cache key -> the row of the table embeddings_cache
    searchResp, \* the response of the search request handled last
    searchLog,  \* what the search request handled last did (history variable)
    updateResp, \* the status of the search/update request handled last
    updateLog,  \* what the search/update request handled last did (history variable)
    inflight,   \* slot -> the analyze request in flight in it and the await it is at
    invoked,    \* cache key -> requests in flight that called the provider (history variable)
    nreq,       \* number of requests handled so far
    searchQuery,          \* the hook's state searchQuery (use-semantic-search.ts 35)
    searchType,           \* the hook's state searchType (36)
    isSearching,          \* the hook's state isSearching (37)
    results,              \* the hook's state results (38)
    searchError,          \* the hook's state error (39)
    lastQueryRef,         \* lastQueryRef.current (42)
    searchInProgressRef,  \* searchInProgressRef.current (44)
    pendingSearchRef,     \* pendingSearchRef.current (46)
    debouncedSearchQuery, \* the debounced searchQuery (49)
    fetching,             \* the fetch performSearch awaits (105)
    lastExecuted,         \* the query executeSearch was called with last (history variable)
    resetActive           \* resetSearch ran and no query was entered since (history variable)

analyzeVars == <<redis, counts, lastTimes, cache, resp, log, admittedInWindow, lastArrival,
                 retryDue>>

searchVars == <<notes, bookmarks, embeddings, searchResp, searchLog, updateResp, updateLog>>

concurrentVars == <<inflight, invoked>>

hookVars == <<searchQuery, searchType, isSearching, results, searchError, lastQueryRef,
              searchInProgressRef, pendingSearchRef, debouncedSearchQuery, fetching,
              lastExecuted, resetActive>>

vars == <<analyzeVars, searchVars, concurrentVars, clock, nreq, hookVars>>

-----------------------------------------------------------------------------
(* Program constants (route.ts 19-23, 144).                                *)

MAX_REQUESTS_PER_USER == 10
WINDOW_DURATION == 3600
MAX_CONTENT_LENGTH == 10000
MINIMUM_REQUEST_INTERVAL == 10
CACHE_TTL_SECONDS == 86400
HASH_PREFIX_LENGTH == 100

(* Program constants of the search route (src/unnamed/part_000 219-220,    *)
(* 421, 434, 447); similarities are in hundredths.                         *)
MAX_RESULTS == 10
CACHE_TTL == 604800
EXACT_TITLE_SIMILARITY == 95
PARTIAL_TITLE_SIMILARITY == 85
BODY_SIMILARITY == 70

(* The embedding cache key keeps BASE64_PREFIX characters of the base64    *)
(* text (part_000 553, 792).                                               *)
BASE64_PREFIX == 100

(* Bounds of the model.                                                    *)
MaxRequests == 3
MaxCooldownRequests == 4
MaxQuotaRequests == 12
MaxCacheRequests == 3
MaxNoStoreRequests == 11
MaxRetryRequests == 12
MaxSearches == 1
MaxConcurrentRequests == 11
MaxStoreFailureRequests == 3
MaxEmbeddingRequests == 2
MaxNotes == 11
MaxBookmarks == 1
StartClock == 1000000

Users == {"u1", "u2"}

-----------------------------------------------------------------------------
(* Strings.                                                                *)

Rep(n, s) == [i \in 1..(n * Len(s)) |-> s[((i - 1) % Len(s)) + 1]]

IsSpace(ch) == ch \in {" ", "\n", "\t"}

Min(a, b) == IF a < b THEN a ELSE b

SetMin(S) == CHOOSE x \in S : \A y \in S : x <= y

\* Number.prototype.toString() of a non-negative integer.
RECURSIVE Digits(_)
Digits(n) ==
    LET d == <<"0", "1", "2", "3", "4", "5", "6", "7", "8", "9">>
    IN  IF n < 10 THEN <<d[n + 1]>> ELSE Digits(n \div 10) \o <<d[(n % 10) + 1]>>

\* s.split(/\s+/) restricted to its non-empty pieces: the maximal runs of
\* non-space characters, each given by its first and last position.
IsWordStart(s, i) == ~IsSpace(s[i]) /\ (i = 1 \/ IsSpace(s[i - 1]))
IsWordEnd(s, j) == ~IsSpace(s[j]) /\ (j = Len(s) \/ IsSpace(s[j + 1]))
WordStarts(s) == {i \in 1..Len(s) : IsWordStart(s, i)}
WordEnd(s, i) ==
    CHOOSE j \in i..Len(s) : IsWordEnd(s, j) /\ \A k \in i..(j - 1) : ~IsWordEnd(s, k)

RECURSIVE SortedSeq(_)
SortedSeq(S) == IF S = {} THEN <<>> ELSE <<SetMin(S)>> \o SortedSeq(S \ {SetMin(S)})

\* .filter(word => word.length > 4), applied to the pieces in order
LongWords(s) ==
    LET st == SortedSeq({i \in WordStarts(s) : WordEnd(s, i) - i + 1 > 4})
    IN  [k \in 1..Len(st) |-> SubSeq(s, st[k], WordEnd(s, st[k]))]

\* [...new Set(words)]: the first occurrence of each word, in order.
Dedupe(ws) ==
    LET keep == {k \in 1..Len(ws) : \A m \in 1..(k - 1) : ws[m] # ws[k]}
        idx == SortedSeq(keep)
    IN  [k \in 1..Len(idx) |-> ws[idx[k]]]

-----------------------------------------------------------------------------
(* Request bodies: the value of the body's content field.                  *)

Str(s) == [t |-> "string", v |-> s]

Prefix100 == Rep(20, <<"a","l","f","a"," ">>)

ContentTable == <<
    [t |-> "undefined", v |-> <<>>],
    [t |-> "number", v |-> <<"4", "2">>],
    Str(<<>>),
    Str(<<"h","e","l","l","o",","," ","w","o","r","l","d"," ","h","e","l","l","o",","," ","t","i","n","y">>),
    Str(Prefix100 \o <<"g","a","m","m","a">>),
    Str(Prefix100 \o <<"d","e","l","t","a">>),
    Str(Rep(2000, <<"a","a","a","a"," ">>)),
    Str(Rep(2000, <<"a","a","a","a"," ">>) \o <<"a">>)
>>

Contents == 1..Len(ContentTable)

\* What the handler reads of a content, computed once per content.
TypeTable == [c \in Contents |-> ContentTable[c].t]
LengthTable == [c \in Contents |-> Len(ContentTable[c].v)]

IsString(c) == TypeTable[c] = "string"
Length(c) == LengthTable[c]

\* !content : undefined, null, 0 and "" are falsy.
Falsy(c) == TypeTable[c] \in {"undefined", "null"} \/ (IsString(c) /\ Length(c) = 0)

\* Validate with the length test off by one.
Validate_LengthOffByOne(c) ==
    IF Falsy(c) \/ ~IsString(c) THEN 400
    ELSE IF Length(c) >= MAX_CONTENT_LENGTH THEN 413
    ELSE 0

Validate(c) ==
    IF Falsy(c) \/ ~IsString(c) THEN 400
    ELSE IF Length(c) > MAX_CONTENT_LENGTH THEN 413
    ELSE 0

ValidContents == {c \in Contents : Validate(c) = 0}

-----------------------------------------------------------------------------
(* The cache key.  Base64 is injective and the key is only ever compared   *)
(* for equality, so the key is kept as the text that is encoded.           *)

ContentHash(c) ==
    LET s == ContentTable[c].v
    IN  SubSeq(s, 1, Min(HASH_PREFIX_LENGTH, Len(s))) \o Digits(Len(s))

HashTable == [c \in ValidContents |-> ContentHash(c)]

\* The cache is indexed by the least content with the same hash: two
\* contents share an index exactly when their cache keys are equal.
CacheKeyTable ==
    [c \in ValidContents |-> SetMin({d \in ValidContents : HashTable[d] = HashTable[c]})]

CacheKey(c) == CacheKeyTable[c]

CacheKeys == {CacheKey(c) : c \in ValidContents}

-----------------------------------------------------------------------------
(* The local generators.  A concept keeps its id and label, a relationship *)
(* its source and target; the theme, the importance and the relationship   *)
(* label are independent random picks from fixed lists and are left out.   *)

Topics == {"organization", "productivity", "creativity", "learning", "problem-solving"}

\* content.split(/\s+/).filter(Boolean).length
WordCountTable == [c \in ValidContents |-> Cardinality(WordStarts(ContentTable[c].v))]

simulateAISummary(c, topic) ==
    LET wordCount == WordCountTable[c]
    IN  IF Length(c) < 50 THEN
            <<"This note is quite brief. Consider adding more details to develop your thoughts further.">>
        ELSE IF Length(c) < 200 THEN
            <<"This is a short note that covers the basics. You might want to expand on key points to make it more comprehensive.">>
        ELSE
            <<"This is a well-developed note with approximately ", ToString(wordCount),
              " words. The content appears to focus on ", topic, ".">>

SummaryTopics(c) == IF Length(c) < 200 THEN {"organization"} ELSE Topics

ConceptId(index) == <<"concept", index>>

\* word.replace(/[^\w\s]/gi, ''), over the characters the contents are made of.
IsWordChar(ch) ==
    ch \in {"a","b","c","d","e","f","g","h","i","j","k","l","m","n","o","p","q","r",
            "s","t","u","v","w","x","y","z","0","1","2","3","4","5","6","7","8","9","_"}

StripNonWord(w) == SelectSeq(w, LAMBDA ch : IsWordChar(ch) \/ IsSpace(ch))

ConceptWordsTable ==
    [c \in ValidContents |->
        LET words == LongWords(ContentTable[c].v)
            uniq == Dedupe(words)
        IN  SubSeq(uniq, 1, Min(Len(uniq), Min(10, Len(words))))]

\* The relationships of concepts i..n-1 (0-based), conn[i] being
\* Math.floor(Math.random() * 3) + 1 as drawn for concept i.
RECURSIVE RelationshipsFrom(_, _, _)
RelationshipsFrom(i, n, conn) ==
    IF i >= n THEN <<>>
    ELSE [j \in 1..conn[i] |->
             [source |-> ConceptId(i), target |-> ConceptId((i + (j - 1) + 1) % n)]]
         \o RelationshipsFrom(i + 1, n, conn)

generateKnowledgeGraph(c, conn) ==
    LET ws == ConceptWordsTable[c]
    IN  [concepts |-> [k \in 1..Len(ws) |-> [id |-> ConceptId(k - 1), label |-> StripNonWord(ws[k])]],
         relationships |-> RelationshipsFrom(0, Len(ws), conn)]

\* Every way the random numbers of connections can fall for content c.
ConnChoices(c) == [0..(Len(ConceptWordsTable[c]) - 1) -> 1..3]

EmptyGraph == [concepts |-> <<>>, relationships |-> <<>>]

-----------------------------------------------------------------------------
(* The provider.  What a call of geminiModel.generateContent produces is   *)
(* the environment's choice.                                               *)

SummaryOutcomes == {"S1", "S2", "empty", "noresponse", "timeout"}

\* The text of a concept-map answer: a JSON value, possibly with prose in
\* front, a ```json fence around it and a trailing comma in it; or no text.
GraphText(json, wrapped) == [kind |-> "text", json |-> json, prose |-> wrapped,
                             fence |-> wrapped, tcomma |-> wrapped]

GraphOutcomes ==
    { GraphText("good", FALSE), GraphText("good", TRUE), GraphText("dangling", FALSE),
      GraphText("garbage", FALSE),
      [kind |-> "empty", json |-> "none", prose |-> FALSE, fence |-> FALSE, tcomma |-> FALSE],
      [kind |-> "timeout", json |-> "none", prose |-> FALSE, fence |-> FALSE, tcomma |-> FALSE] }

\* The JSON values the provider's text can hold.
ProviderGraph(json) ==
    IF json = "good" THEN
        [concepts |-> << [id |-> ConceptId(1), label |-> <<"x">>],
                         [id |-> ConceptId(2), label |-> <<"y">>] >>,
         relationships |-> << [source |-> ConceptId(1), target |-> ConceptId(2)] >>]
    ELSE
        [concepts |-> << [id |-> ConceptId(1), label |-> <<"x">>] >>,
         relationships |-> << [source |-> ConceptId(1), target |-> ConceptId(7)] >>]

Thrown == [ok |-> FALSE, text |-> <<>>]

generateSummaryWithGemini(apiKey, out) ==
    IF ~apiKey THEN Thrown
    ELSE IF out \in {"timeout", "noresponse", "empty"} THEN Thrown
    ELSE [ok |-> TRUE, text |-> <<out>>]

\* The clean-up of the concept-map text and its two parse attempts.  The
\* fence is removed when the text includes "```json"; trailing commas are
\* removed; JSON.parse needs the whole text to be the JSON value; the second
\* attempt parses from the first "{" to the last "}".
StripFence(t) == IF t.fence THEN [t EXCEPT !.fence = FALSE] ELSE t
StripTrailingCommas(t) == [t EXCEPT !.tcomma = FALSE]
StrictParse(t) == ~t.prose /\ ~t.fence /\ ~t.tcomma /\ t.json # "garbage"
ExtractParse(t) == ~t.tcomma /\ t.json # "garbage"

ParseConceptMap(out) ==
    LET t == StripTrailingCommas(StripFence(out))
    IN  StrictParse(t) \/ ExtractParse(t)

\* Whether the try block of generateConceptMapWithGemini reaches a return.
ConceptMapParsed(apiKey, out) == apiKey /\ out.kind = "text" /\ ParseConceptMap(out)

\* Returns the graph and where it came from: the catch of lines 333-337
\* turns every failure into the local generator's graph, whose random
\* numbers of connections are conn.
generateConceptMapWithGemini(c, apiKey, out, conn) ==
    IF ConceptMapParsed(apiKey, out)
    THEN [graph |-> ProviderGraph(out.json), src |-> "provider", called |-> TRUE]
    ELSE [graph |-> generateKnowledgeGraph(c, conn), src |-> "local", called |-> apiKey]

-----------------------------------------------------------------------------
(* The store: keys with a value and an expiry (in clock milliseconds).     *)

NoTTL == -1

NoKey == [present |-> FALSE, val |-> 0, exp |-> NoTTL]

Alive(k, now) == k.present /\ (k.exp = NoTTL \/ now < k.exp)

\* await redis.get(key) || 0, for the numeric keys
GetOrZero(k, now) == IF Alive(k, now) THEN k.val ELSE 0

RedisIncr(k, now) ==
    IF Alive(k, now) THEN [k EXCEPT !.val = @ + 1]
    ELSE [present |-> TRUE, val |-> 1, exp |-> NoTTL]

RedisExpire(k, now, seconds) ==
    IF Alive(k, now) THEN [k EXCEPT !.exp = now + seconds * 1000] ELSE k

\* redis.set(key, value): no expiry is given
RedisSet(value) == [present |-> TRUE, val |-> value, exp |-> NoTTL]

(* Response payloads and cached values.                                    *)

Payload(summary, graph, notice, error) ==
    [summary |-> summary, graphData |-> graph, notice |-> notice, error |-> error]

NoPayload == Payload(<<>>, EmptyGraph, "", "")

NoEntry == [present |-> FALSE, val |-> NoPayload, exp |-> NoTTL, from |-> 0,
            summarySrc |-> "none", graphSrc |-> "none"]

\* redis.set(cacheKey, responseData, { ex: 24 * 60 * 60 }); from, summarySrc
\* and graphSrc record where the value came from.
RedisSetEx(value, now, seconds, c, sSrc, gSrc) ==
    [present |-> TRUE, val |-> value, exp |-> now + seconds * 1000, from |-> c,
     summarySrc |-> sSrc, graphSrc |-> gSrc]

\* JSON.stringify(x): a string, the JSON text of x.
JsonStringify(x) == [ty |-> "string", val |-> x]

\* What redis.get hands back for a stored JSON text: the client parses
\* every reply (its automatic deserialization), so an object, not a string.
RedisGetValue(entry) == [ty |-> "object", val |-> entry.val]

\* new NextResponse(body): a string is sent as it is, any other value as
\* its String() conversion.
ResponseBody(x) ==
    IF x.ty = "string" THEN [text |-> "json", val |-> x.val]
    ELSE [text |-> "[object Object]", val |-> NoPayload]

Response(status, retryAfter, xcache, body) ==
    [status |-> status, retryAfter |-> retryAfter, xcache |-> xcache, body |-> body]

ErrorResponse(status, msg, retryAfter) ==
    Response(status, retryAfter, "none",
             ResponseBody(JsonStringify(Payload(<<>>, EmptyGraph, "", msg))))

-----------------------------------------------------------------------------
(* The handler.                                                            *)

\* const currentTime = Math.floor(Date.now() / 1000)
CurrentTime(now) == now \div 1000

\* UseStore for a handler that takes the store's branches without a client.
UseStore_Always(client) == TRUE

\* if (redis): the store's branches are taken when the client was constructed.
UseStore(client) == client

\* QuotaExceeded with > for >=.
QuotaExceeded_OffByOne(requestCount) == requestCount > MAX_REQUESTS_PER_USER

QuotaExceeded(requestCount) == requestCount >= MAX_REQUESTS_PER_USER

\* InCooldown with <= for <.
InCooldown_Inclusive(currentTime, lastRequestTime) ==
    currentTime - lastRequestTime <= MINIMUM_REQUEST_INTERVAL

InCooldown(currentTime, lastRequestTime) ==
    currentTime - lastRequestTime < MINIMUM_REQUEST_INTERVAL

\* CooldownRetryAfter one second short.
CooldownRetryAfter_Short(currentTime, lastRequestTime) ==
    MINIMUM_REQUEST_INTERVAL - (currentTime - lastRequestTime) - 1

CooldownRetryAfter(currentTime, lastRequestTime) ==
    MINIMUM_REQUEST_INTERVAL - (currentTime - lastRequestTime)

QuotaRetryAfter == WINDOW_DURATION

\* CountRequest without the increment of an existing counter.
CountRequest_NoIncr(k, now) ==
    IF Alive(k, now) THEN RedisExpire(k, now, WINDOW_DURATION)
    ELSE RedisExpire(RedisIncr(k, now), now, WINDOW_DURATION)

\* redis.incr(requestCountKey) followed by redis.expire(requestCountKey, WINDOW_DURATION)
CountRequest(k, now) == RedisExpire(RedisIncr(k, now), now, WINDOW_DURATION)

\* The store as the request finds it: keys past their expiry are gone.
PurgeKey(k, now) == IF Alive(k, now) THEN k ELSE NoKey
PurgeEntry(e, now) == IF Alive(e, now) THEN e ELSE NoEntry

BaseLog(u, c, now, cn, ls, ca) ==
    [user |-> u, content |-> c, arrival |-> now, valid |-> Validate(c) = 0,
     gate |-> "none", admitted |-> FALSE, hit |-> FALSE, hitFrom |-> 0,
     hitVal |-> NoPayload, stored |-> FALSE,
     providerCalls |-> 0, localRuns |-> 0, summarySrc |-> "none", graphSrc |-> "none",
     summaryThrew |-> FALSE, graphAvailable |-> FALSE,
     failedOp |-> "none",
     storeOps |-> {},
     preCount |-> GetOrZero(cn[u], now),
     preTtl |-> IF Alive(cn[u], now) /\ cn[u].exp # NoTTL THEN cn[u].exp - now ELSE 0,
     preLast |-> GetOrZero(ls[u], now),
     preAdmitted |-> IF Alive(cn[u], now) THEN admittedInWindow[u] ELSE 0,
     preArrival |-> lastArrival[u],
     preRetryDue |-> retryDue[u],
     preCounts |-> cn, preLastTimes |-> ls, preCache |-> ca]

Finish(cn, ls, ca, r, l) ==
    /\ counts' = cn
    /\ lastTimes' = ls
    /\ cache' = ca
    /\ resp' = r
    /\ log' = l
    /\ admittedInWindow' =
           [x \in Users |->
               IF ~cn[x].present THEN 0
               ELSE IF x = l.user /\ l.admitted /\ redis THEN l.preAdmitted + 1
               ELSE admittedInWindow[x]]
    /\ lastArrival' =
           [x \in Users |->
               IF x = l.user /\ l.admitted /\ redis THEN l.arrival ELSE lastArrival[x]]
    /\ retryDue' =
           [x \in Users |->
               IF x # l.user THEN retryDue[x]
               ELSE IF r.status = 429 THEN l.arrival + r.retryAfter * 1000
               ELSE 0]

\* The catch of lines 154-171: both pieces from the local generators.
Caught(c, cn, ls, ca, l) ==
    \E conn \in ConnChoices(c), topic \in SummaryTopics(c) :
        LET responseData ==
                JsonStringify(Payload(simulateAISummary(c, topic),
                                      generateKnowledgeGraph(c, conn),
                                      "Using simulated analysis due to API error", ""))
        IN  Finish(cn, ls, ca,
                   Response(200, -1, "none", ResponseBody(responseData)),
                   [l EXCEPT !.localRuns = 2, !.summarySrc = "local", !.graphSrc = "local"])

\* Fallback without the inner catch: the provider's error reaches the outer one.
Fallback_Uncaught(c, cn, ls, ca, l, calls) ==
    Finish(cn, ls, ca, ErrorResponse(500, "Internal server error", -1),
           [l EXCEPT !.providerCalls = calls, !.summaryThrew = TRUE])

\* The summary call threw after calls provider calls: the catch runs.
Fallback(c, cn, ls, ca, l, calls) ==
    Caught(c, cn, ls, ca, [l EXCEPT !.providerCalls = calls, !.summaryThrew = TRUE])

\* Lines 137-153: the response of the try block, written to the cache first.
Fresh(c, now, cn, ls, ca, l, summary, g) ==
    LET responseData == JsonStringify(Payload(summary, g.graph, "", ""))
        ca2 == IF UseStore(redis)
               THEN [ca EXCEPT ![CacheKey(c)] =
                        RedisSetEx(responseData.val, now, CACHE_TTL_SECONDS,
                                   c, "provider", g.src)]
               ELSE ca
    IN  Finish(cn, ls, ca2,
               Response(200, -1, "MISS", ResponseBody(responseData)),
               [l EXCEPT !.providerCalls = 1 + (IF g.called THEN 1 ELSE 0),
                         !.localRuns = IF g.src = "local" THEN 1 ELSE 0,
                         !.summarySrc = "provider", !.graphSrc = g.src,
                         !.graphAvailable = (g.src = "provider"),
                         !.stored = redis,
                         !.storeOps = IF redis THEN @ \cup {"set cache"} ELSE @])

\* Lines 132-171.  The outcome of a provider call is drawn when the call is
\* made, the local generator's random numbers when it runs.  When the
\* summary call throws, the concept-map call is not made: what the provider
\* had answered to it is drawn all the same and kept in graphAvailable.
Generate(c, now, cn, ls, ca, l, SumOuts, GraphOuts, Keys) ==
    \E apiKey \in Keys :
        IF ~apiKey THEN Fallback(c, cn, ls, ca, l, 0)
        ELSE \E so \in SumOuts :
            LET s == generateSummaryWithGemini(apiKey, so)
            IN  IF ~s.ok THEN
                    \E go \in GraphOuts :
                        Fallback(c, cn, ls, ca,
                                 [l EXCEPT !.graphAvailable = ConceptMapParsed(apiKey, go)], 1)
                ELSE \E go \in GraphOuts :
                    IF ConceptMapParsed(apiKey, go)
                    THEN Fresh(c, now, cn, ls, ca, l, s.text,
                               generateConceptMapWithGemini(c, apiKey, go, <<>>))
                    ELSE \E conn \in ConnChoices(c) :
                             Fresh(c, now, cn, ls, ca, l, s.text,
                                   generateConceptMapWithGemini(c, apiKey, go, conn))

\* Reject that counts the rejected request.
Reject_Counted(u, now, cn, ls, ca, r, l) ==
    Finish([cn EXCEPT ![u] = CountRequest(cn[u], now)], ls, ca, r, l)

\* Lines 73-82 and 91-100: the 429 is returned at once; nothing is written.
Reject(u, now, cn, ls, ca, r, l) == Finish(cn, ls, ca, r, l)

\* POST, for an authenticated request of user u with content c that arrives
\* dt milliseconds after the previous request.
Analyze(u, c, dt, SumOuts, GraphOuts, Keys) ==
    LET now == clock + dt
        cn == [x \in Users |-> PurgeKey(counts[x], now)]
        ls == [x \in Users |-> PurgeKey(lastTimes[x], now)]
        ca == [k \in CacheKeys |-> PurgeEntry(cache[k], now)]
        l0 == BaseLog(u, c, now, cn, ls, ca)
        requestCount == GetOrZero(cn[u], now)
        lastRequestTime == GetOrZero(ls[u], now)
        currentTime == CurrentTime(now)
    IN  /\ clock' = now
        /\ nreq' = nreq + 1
        /\ redis' = redis
        /\ UNCHANGED <<searchVars, concurrentVars, hookVars>>
        /\ IF Validate(c) = 400 THEN
               Finish(cn, ls, ca, ErrorResponse(400, "Invalid content", -1), l0)
           ELSE IF Validate(c) = 413 THEN
               Finish(cn, ls, ca, ErrorResponse(413, "Content too large", -1), l0)
           ELSE IF ~UseStore(redis) THEN
               Generate(c, now, cn, ls, ca, [l0 EXCEPT !.admitted = TRUE],
                        SumOuts, GraphOuts, Keys)
           ELSE IF QuotaExceeded(requestCount) THEN
               Reject(u, now, cn, ls, ca,
                      ErrorResponse(429, "Rate limit exceeded. Try again later.", QuotaRetryAfter),
                      [l0 EXCEPT !.gate = "quota", !.storeOps = {"get count"}])
           ELSE IF InCooldown(currentTime, lastRequestTime) THEN
               Reject(u, now, cn, ls, ca,
                      ErrorResponse(429, "Please wait before making another request",
                                    CooldownRetryAfter(currentTime, lastRequestTime)),
                      [l0 EXCEPT !.gate = "cooldown", !.storeOps = {"get count", "get last"}])
           ELSE
               LET ls2 == [ls EXCEPT ![u] = RedisSet(currentTime)]
                   cn2 == [cn EXCEPT ![u] = CountRequest(cn[u], now)]
                   entry == ca[CacheKey(c)]
                   l1 == [l0 EXCEPT !.admitted = TRUE,
                                    !.storeOps = {"get count", "get last", "set last",
                                                  "get cache", "incr count", "expire count"}]
               IN  IF Alive(entry, now) THEN
                       Finish(cn2, ls2, ca,
                              Response(200, -1, "HIT", ResponseBody(RedisGetValue(entry))),
                              [l1 EXCEPT !.hit = TRUE, !.hitFrom = entry.from,
                                         !.hitVal = entry.val,
                                         !.summarySrc = "cache", !.graphSrc = "cache"])
                   ELSE
                       Generate(c, now, cn2, ls2, ca, l1, SumOuts, GraphOuts, Keys)

\* The store operations of the handler, in the order of their awaits.
StoreOps == {"get count", "get last", "set last", "get cache", "incr count",
             "expire count", "set cache"}

\* POST, for a request with valid content during which the store operation
\* op throws (the store cannot be reached).  An operation of lines 70-129
\* throws to the outer catch; the cache write of line 144 is inside the inner
\* try and throws to the catch of lines 154-171.
AnalyzeStoreFailure(u, c, dt, op, SumOuts, GraphOuts) ==
    LET now == clock + dt
        cn == [x \in Users |-> PurgeKey(counts[x], now)]
        ls == [x \in Users |-> PurgeKey(lastTimes[x], now)]
        ca == [k \in CacheKeys |-> PurgeEntry(cache[k], now)]
        l0 == [BaseLog(u, c, now, cn, ls, ca) EXCEPT !.failedOp = op]
        requestCount == GetOrZero(cn[u], now)
        lastRequestTime == GetOrZero(ls[u], now)
        currentTime == CurrentTime(now)
        ls2 == [ls EXCEPT ![u] = RedisSet(currentTime)]
        entry == ca[CacheKey(c)]
        l1 == [l0 EXCEPT !.admitted = TRUE]
        error == ErrorResponse(500, "Internal server error", -1)
    IN  /\ UseStore(redis)
        /\ Validate(c) = 0
        /\ clock' = now
        /\ nreq' = nreq + 1
        /\ redis' = redis
        /\ UNCHANGED <<searchVars, concurrentVars, hookVars>>
        /\ IF op = "get count" THEN
               Finish(cn, ls, ca, error, [l0 EXCEPT !.storeOps = {"get count"}])
           ELSE /\ ~QuotaExceeded(requestCount)
                /\ IF op = "get last" THEN
                       Finish(cn, ls, ca, error,
                              [l0 EXCEPT !.storeOps = {"get count", "get last"}])
                   ELSE /\ ~InCooldown(currentTime, lastRequestTime)
                        /\ IF op = "set last" THEN
                               Finish(cn, ls, ca, error,
                                      [l1 EXCEPT !.storeOps = {"get count", "get last",
                                                               "set last"}])
                           ELSE IF op = "get cache" THEN
                               Finish(cn, ls2, ca, error,
                                      [l1 EXCEPT !.storeOps = {"get count", "get last",
                                                               "set last", "get cache"}])
                           ELSE IF op = "incr count" THEN
                               Finish(cn, ls2, ca, error,
                                      [l1 EXCEPT !.storeOps = {"get count", "get last",
                                                               "set last", "get cache",
                                                               "incr count"}])
                           ELSE IF op = "expire count" THEN
                               Finish([cn EXCEPT ![u] = RedisIncr(cn[u], now)], ls2, ca, error,
                                      [l1 EXCEPT !.storeOps = StoreOps \ {"set cache"}])
                           ELSE /\ ~Alive(entry, now)
                                /\ \E so \in SumOuts, go \in GraphOuts :
                                      /\ generateSummaryWithGemini(TRUE, so).ok
                                      /\ ConceptMapParsed(TRUE, go)
                                      /\ Caught(c, [cn EXCEPT ![u] = CountRequest(cn[u], now)],
                                                ls2, ca,
                                                [l1 EXCEPT !.storeOps = StoreOps,
                                                           !.providerCalls = 2,
                                                           !.graphAvailable = TRUE])

-----------------------------------------------------------------------------
(* The analyze handler one await at a time.  Each request in flight holds  *)
(* a slot; a store operation is atomic and takes effect at its await; the  *)
(* values a request has read are its own.  Requests carry valid content,   *)
(* the provider answers, and the clock moves only between requests: the    *)
(* awaits of a request take no time.                                       *)

Slots == {"a", "b"}

Idle == [pc |-> "idle", user |-> "u1", content |-> 0, currentTime |-> 0, hit |-> FALSE]

AllIdle == \A p \in Slots : inflight[p].pc = "idle"

\* The request leaves its slot with response r.
Respond(p, r) ==
    /\ inflight' = [inflight EXCEPT ![p] = Idle]
    /\ resp' = r

Goto(p, pc) == inflight' = [inflight EXCEPT ![p].pc = pc]

ConcurrentFrame == UNCHANGED <<redis, log, lastArrival, retryDue, searchVars, hookVars>>

\* Lines 26-64: the request arrives, dt milliseconds after the previous one,
\* and passes the session and body checks.  It takes the first free slot.
Start(p, u, c, dt) ==
    /\ redis
    /\ Validate(c) = 0
    /\ inflight[p].pc = "idle"
    /\ \A o \in Slots : inflight[o].pc = "idle" => (p = "a" \/ o # "a")
    /\ dt > 0 => AllIdle
    /\ inflight' = [inflight EXCEPT ![p] = [Idle EXCEPT !.pc = "get count", !.user = u,
                                                        !.content = c]]
    /\ clock' = clock + dt
    /\ nreq' = nreq + 1
    /\ ConcurrentFrame
    /\ UNCHANGED <<counts, lastTimes, cache, resp, admittedInWindow, invoked>>

\* Lines 70-83
GetCount(p) ==
    LET u == inflight[p].user
        requestCount == GetOrZero(counts[u], clock)
    IN  /\ inflight[p].pc = "get count"
        /\ IF QuotaExceeded(requestCount)
           THEN Respond(p, ErrorResponse(429, "Rate limit exceeded. Try again later.",
                                         QuotaRetryAfter))
           ELSE Goto(p, "get last") /\ resp' = resp
        /\ ConcurrentFrame
        /\ UNCHANGED <<counts, lastTimes, cache, admittedInWindow, invoked, nreq, clock>>

\* Lines 87-101: the second gate; a request that passes it is admitted.
GetLast(p) ==
    LET u == inflight[p].user
        lastRequestTime == GetOrZero(lastTimes[u], clock)
        currentTime == CurrentTime(clock)
    IN  /\ inflight[p].pc = "get last"
        /\ IF InCooldown(currentTime, lastRequestTime)
           THEN /\ Respond(p, ErrorResponse(429, "Please wait before making another request",
                                            CooldownRetryAfter(currentTime, lastRequestTime)))
                /\ admittedInWindow' = admittedInWindow
           ELSE /\ inflight' = [inflight EXCEPT ![p].pc = "set last",
                                                ![p].currentTime = currentTime]
                /\ resp' = resp
                /\ admittedInWindow' = [admittedInWindow EXCEPT ![u] = @ + 1]
        /\ ConcurrentFrame
        /\ UNCHANGED <<counts, lastTimes, cache, invoked, nreq, clock>>

\* Line 104
SetLast(p) ==
    /\ inflight[p].pc = "set last"
    /\ lastTimes' = [lastTimes EXCEPT ![inflight[p].user] = RedisSet(inflight[p].currentTime)]
    /\ Goto(p, "get cache")
    /\ ConcurrentFrame
    /\ UNCHANGED <<counts, cache, resp, admittedInWindow, invoked, nreq, clock>>

\* Line 111
GetCache(p) ==
    /\ inflight[p].pc = "get cache"
    /\ inflight' = [inflight EXCEPT ![p].pc = "incr count",
                                    ![p].hit = Alive(cache[CacheKey(inflight[p].content)], clock)]
    /\ ConcurrentFrame
    /\ UNCHANGED <<counts, lastTimes, cache, resp, admittedInWindow, invoked, nreq, clock>>

\* Lines 114 and 128
Incr(p) ==
    /\ inflight[p].pc = "incr count"
    /\ counts' = [counts EXCEPT ![inflight[p].user] = RedisIncr(@, clock)]
    /\ Goto(p, "expire count")
    /\ ConcurrentFrame
    /\ UNCHANGED <<lastTimes, cache, resp, admittedInWindow, invoked, nreq, clock>>

\* Lines 115-125 and 129: after the expire a hit is answered from the value
\* that was read.
Expire(p) ==
    /\ inflight[p].pc = "expire count"
    /\ counts' = [counts EXCEPT ![inflight[p].user] = RedisExpire(@, clock, WINDOW_DURATION)]
    /\ IF inflight[p].hit
       THEN Respond(p, Response(200, -1, "HIT",
                                ResponseBody(RedisGetValue(cache[CacheKey(inflight[p].content)]))))
       ELSE Goto(p, "generate") /\ resp' = resp
    /\ ConcurrentFrame
    /\ UNCHANGED <<lastTimes, cache, admittedInWindow, invoked, nreq, clock>>

\* Lines 134-137: the two provider calls, both answered.
CallProvider(p) ==
    /\ inflight[p].pc = "generate"
    /\ invoked' = [invoked EXCEPT ![CacheKey(inflight[p].content)] = @ + 1]
    /\ Goto(p, "set cache")
    /\ ConcurrentFrame
    /\ UNCHANGED <<counts, lastTimes, cache, resp, admittedInWindow, nreq, clock>>

\* Lines 140-153
SetCache(p) ==
    LET c == inflight[p].content
        g == generateConceptMapWithGemini(c, TRUE, GraphText("good", FALSE), <<>>)
        responseData ==
            JsonStringify(Payload(generateSummaryWithGemini(TRUE, "S1").text, g.graph, "", ""))
    IN  /\ inflight[p].pc = "set cache"
        /\ cache' = [cache EXCEPT ![CacheKey(c)] =
                        RedisSetEx(responseData.val, clock, CACHE_TTL_SECONDS,
                                   c, "provider", g.src)]
        /\ Respond(p, Response(200, -1, "MISS", ResponseBody(responseData)))
        /\ ConcurrentFrame
        /\ UNCHANGED <<counts, lastTimes, admittedInWindow, invoked, nreq, clock>>

-----------------------------------------------------------------------------
(* The search route (src/unnamed/part_000 208-670).  A row of notes or     *)
(* bookmarks keeps its id, its owner, its title and its body (the content  *)
(* of a note, the url of a bookmark); titles and bodies are indices into   *)
(* SearchTexts, queries into QueryTable.                                   *)

UpperLetters == <<"A","B","C","D","E","F","G","H","I","J","K","L","M",
                  "N","O","P","Q","R","S","T","U","V","W","X","Y","Z">>
LowerLetters == <<"a","b","c","d","e","f","g","h","i","j","k","l","m",
                  "n","o","p","q","r","s","t","u","v","w","x","y","z">>

\* String.prototype.toLowerCase, over the characters the texts are made of.
ToLowerCase(s) ==
    [i \in 1..Len(s) |->
        IF \E k \in 1..26 : UpperLetters[k] = s[i]
        THEN LowerLetters[CHOOSE k \in 1..26 : UpperLetters[k] = s[i]]
        ELSE s[i]]

\* String.prototype.trim
Trim(s) ==
    LET keep == {i \in 1..Len(s) : ~IsSpace(s[i])}
    IN  IF keep = {} THEN <<>>
        ELSE SubSeq(s, SetMin(keep), CHOOSE j \in keep : \A k \in keep : k <= j)

\* The LIKE operator: % matches any run of characters, _ any one character.
RECURSIVE Like(_, _)
Like(s, pattern) ==
    IF pattern = <<>> THEN s = <<>>
    ELSE IF Head(pattern) = "%" THEN
        Like(s, Tail(pattern)) \/ (s # <<>> /\ Like(Tail(s), pattern))
    ELSE /\ s # <<>>
         /\ (Head(pattern) = "_" \/ Head(pattern) = Head(s))
         /\ Like(Tail(s), Tail(pattern))

\* ILIKE: LIKE without regard to case.
ILike(s, pattern) == Like(ToLowerCase(s), ToLowerCase(pattern))

SearchTexts == <<
    <<"A","l","p","h","a">>,
    <<"a","l","p","h","a"," ","b","e","t","a">>,
    <<"G","a","m","m","a">>,
    <<"n","o","t","e","s"," ","o","n"," ","a","l","p","h","a">>,
    <<"m","i","s","c">>,
    <<"h","t","t","p",":","/","/","x",".","i","o">>,
    <<"h","t","t","p",":","/","/","a","l","p","h","a",".","i","o">>
>>

TextIds == 1..Len(SearchTexts)

QueryTable == <<
    [t |-> "undefined", v |-> <<>>],
    Str(<<>>),
    Str(<<" ","A","L","P","H","A"," ">>),
    Str(<<"b","e","t","a">>),
    Str(<<"o","m","e","g","a">>)
>>

Queries == 1..Len(QueryTable)

\* !query || typeof query !== "string"
InvalidQuery(q) == QueryTable[q].t # "string" \/ Len(QueryTable[q].v) = 0

StringQueries == {q \in Queries : ~InvalidQuery(q)}

\* const exactQuery = query.trim().toLowerCase()
ExactQuery(q) == ToLowerCase(Trim(QueryTable[q].v))

\* const likeQuery = `%${exactQuery}%`
LikeQuery(q) == <<"%">> \o ExactQuery(q) \o <<"%">>

\* .ilike(column, exactQuery) and .ilike(column, likeQuery) for every text a
\* column can hold, computed once per query.
ILikeTable ==
    [q \in StringQueries |->
        [t \in TextIds |->
            [exact |-> ILike(SearchTexts[t], ExactQuery(q)),
             like |-> ILike(SearchTexts[t], LikeQuery(q))]]]

\* The rows a scan of the table yields: the order of a SELECT without
\* ORDER BY is the database's choice.
ScanOrders == {"asc", "desc"}

Scan(table, order) ==
    IF order = "asc" THEN table
    ELSE [k \in 1..Len(table) |-> table[Len(table) + 1 - k]]

\* .limit(MAX_RESULTS)
Limit(rows) == SubSeq(rows, 1, Min(MAX_RESULTS, Len(rows)))

\* supabase.from(table).select(...).eq('user_id', userId).ilike(column, pattern)
\*   .limit(MAX_RESULTS), pattern being the exact or the like query
Select(table, order, userId, q, column, pattern) ==
    Limit(SelectSeq(Scan(table, order),
                    LAMBDA r : r.user_id = userId /\ ILikeTable[q][r[column]][pattern]))

\* matches.forEach(row => ... push({...row, similarity}))
Scored(rows, similarity) ==
    [k \in 1..Len(rows) |-> [id |-> rows[k].id, title |-> rows[k].title,
                             similarity |-> similarity]]

\* The three lists in priority order, a row kept only the first time its id
\* is seen (the Set of ids).
Combine(exactTitleMatches, partialTitleMatches, bodyMatches) ==
    LET all == Scored(exactTitleMatches, EXACT_TITLE_SIMILARITY)
               \o Scored(partialTitleMatches, PARTIAL_TITLE_SIMILARITY)
               \o Scored(bodyMatches, BODY_SIMILARITY)
        keep == {k \in 1..Len(all) : \A m \in 1..(k - 1) : all[m].id # all[k].id}
        idx == SortedSeq(keep)
    IN  [k \in 1..Len(idx) |-> all[idx[k]]]

TextSearchTable(table, order, userId, q) ==
    Combine(Select(table, order, userId, q, "title", "exact"),
            Select(table, order, userId, q, "title", "like"),
            Select(table, order, userId, q, "body", "like"))

\* type === "all" || type === <table>
InScope(type, table) == type = "all" \/ type = table

NoTextResults == [notes |-> <<>>, bookmarks |-> <<>>, hasResults |-> FALSE]

\* performTextSearch; threw is whether a query raised an exception, which
\* the catch turns into no results.
\* performTextSearch that never reports results.
performTextSearch_NoResults(nt, bt, q, type, userId, order, threw) ==
    LET n == IF InScope(type, "notes") /\ ~threw
             THEN TextSearchTable(nt, order, userId, q) ELSE <<>>
        b == IF InScope(type, "bookmarks") /\ ~threw
             THEN TextSearchTable(bt, order, userId, q) ELSE <<>>
    IN  [notes |-> n, bookmarks |-> b, hasResults |-> FALSE]

performTextSearch(nt, bt, q, type, userId, order, threw) ==
    IF threw THEN NoTextResults
    ELSE LET n == IF InScope(type, "notes")
                  THEN TextSearchTable(nt, order, userId, q) ELSE <<>>
             b == IF InScope(type, "bookmarks")
                  THEN TextSearchTable(bt, order, userId, q) ELSE <<>>
         IN  [notes |-> n, bookmarks |-> b, hasResults |-> Len(n) > 0 \/ Len(b) > 0]

(* The bodies of the search/update requests (part_000 706).               *)

\* A title that is missing is undefined; bodies 3 and 4 have the same first
\* 75 characters.
UpdateBodies == <<
    [id |-> 1, type |-> "note", title |-> Str(<<"A","l","p","h","a">>), content |-> Str(<<"m","i","s","c">>)],
    [id |-> 1, type |-> "note", title |-> [t |-> "undefined", v |-> <<>>], content |-> Str(<<"A","L","P","H","A">>)],
    [id |-> 1, type |-> "bookmark", title |-> [t |-> "undefined", v |-> <<>>],
     content |-> Str(Rep(15, <<"n","o","t","e"," ">>) \o <<"a","l","p","h","a">>)],
    [id |-> 2, type |-> "note", title |-> [t |-> "undefined", v |-> <<>>],
     content |-> Str(Rep(15, <<"n","o","t","e"," ">>) \o <<"b","e","t","a">>)],
    [id |-> 1, type |-> "tag", title |-> [t |-> "undefined", v |-> <<>>], content |-> Str(<<"m","i","s","c">>)],
    [id |-> 1, type |-> "undefined", title |-> [t |-> "undefined", v |-> <<>>], content |-> Str(<<"m","i","s","c">>)],
    [id |-> 1, type |-> "note", title |-> Str(<<"A","l","p","h","a">>), content |-> [t |-> "undefined", v |-> <<>>]]
>>

\* !id || !content || !type
MissingFields(b) ==
    \/ UpdateBodies[b].id = 0
    \/ UpdateBodies[b].content.t = "undefined" \/ UpdateBodies[b].content.v = <<>>
    \/ UpdateBodies[b].type \in {"undefined", ""}

\* type === 'note' ? `${title || ''} ${content}`.trim() : content
ContentToEmbed(b) ==
    IF UpdateBodies[b].type = "note"
    THEN Trim(UpdateBodies[b].title.v \o <<" ">> \o UpdateBodies[b].content.v)
    ELSE UpdateBodies[b].content.v

(* The embedding cache.  The texts that are embedded are the queries of    *)
(* the search route and the contents of the search/update route; a text is *)
(* known by its index in EmbedTexts, a query by its index in QueryTable.   *)

EmbedTexts ==
    [t \in 1..(Len(QueryTable) + Len(UpdateBodies)) |->
        IF t <= Len(QueryTable) THEN QueryTable[t].v
        ELSE ContentToEmbed(t - Len(QueryTable))]

\* The text of body b.
UpdateText(b) == Len(QueryTable) + b

EmbedIds == StringQueries \cup {UpdateText(b) : b \in {x \in 1..Len(UpdateBodies) : ~MissingFields(x)}}

\* Buffer.from(normalizedText).toString('base64').substring(0, 100): base64
\* writes 4 characters for every 3 bytes of the text, so the characters kept
\* are those of the first BASE64_PREFIX / 4 * 3 bytes of the normalized text,
\* and two texts have the same key exactly when these bytes are the same.
CacheKeyText(t) ==
    LET normalizedText == ToLowerCase(Trim(EmbedTexts[t]))
    IN  SubSeq(normalizedText, 1, Min((BASE64_PREFIX \div 4) * 3, Len(normalizedText)))

CacheKeyTextTable == [t \in EmbedIds |-> CacheKeyText(t)]

\* The cache is indexed by the least text with the same key.
EmbeddingKeyTable ==
    [t \in EmbedIds |->
        SetMin({p \in EmbedIds : CacheKeyTextTable[p] = CacheKeyTextTable[t]})]

EmbeddingKey(q) == EmbeddingKeyTable[q]

EmbeddingKeys == {EmbeddingKey(q) : q \in EmbedIds}

\* A vector is known by the function that made it and the text it was made of.
Vector(src, q) == [src |-> src, of |-> q]

NoVector == Vector("none", 0)

NoRow == [present |-> FALSE, embedding |-> NoVector, created_at |-> 0]

EmbeddingOutcomes == {"ok", "throw"}

\* ageInSeconds < CACHE_TTL
\* CacheValid that takes every row for expired.
CacheValid_Never(row, now) == FALSE

CacheValid(row, now) == row.present /\ now - row.created_at < CACHE_TTL * 1000

\* getEmbeddingWithCache: the embedding and the cache after the call.  out
\* is the outcome of generateEmbedding, consulted when no valid row is cached.
getEmbeddingWithCache(emb, q, now, out) ==
    LET cacheKey == EmbeddingKey(q)
        cachedData == emb[cacheKey]
    IN  IF CacheValid(cachedData, now) THEN
            [embedding |-> cachedData.embedding, cache |-> emb, called |-> FALSE]
        ELSE IF out = "ok" THEN
            [embedding |-> Vector("provider", q),
             cache |-> [emb EXCEPT ![cacheKey] =
                           [present |-> TRUE, embedding |-> Vector("provider", q),
                            created_at |-> now]],
             called |-> TRUE]
        ELSE IF cachedData.present THEN
            [embedding |-> cachedData.embedding, cache |-> emb, called |-> TRUE]
        ELSE
            [embedding |-> Vector("simple", q),
             cache |-> [emb EXCEPT ![cacheKey] =
                           [present |-> TRUE, embedding |-> Vector("simple", q),
                            created_at |-> now - (CACHE_TTL \div 2) * 1000]],
             called |-> TRUE]

\* What supabase.rpc('match_notes' | 'match_bookmarks', ...) resolves to: an
\* error, no row, or the first rows of the user with a similarity above the
\* threshold.
RpcOutcomes == {"error", "none", "some"}

MatchRpc(table, userId, outcome) ==
    IF outcome = "some"
    THEN LET own == SelectSeq(table, LAMBDA r : r.user_id = userId)
         IN  [k \in 1..Min(2, Len(own)) |->
                 [id |-> own[k].id, title |-> own[k].title, similarity |-> 80 - 10 * k]]
    ELSE <<>>

SearchResponse(status, ns, bs, textSearch, fallback) ==
    [status |-> status, notes |-> ns, bookmarks |-> bs,
     textSearch |-> textSearch, fallback |-> fallback]

NoSearchResponse == SearchResponse(0, <<>>, <<>>, FALSE, FALSE)

\* const { query, type = "all" } = await request.json()
TypeInputs == {"undefined", "notes", "bookmarks", "tags"}

DefaultType(type) == IF type = "undefined" THEN "all" ELSE type

\* SemanticEmpty with || for &&.
SemanticEmpty_Either(noteResults, bookmarkResults) ==
    Len(noteResults) = 0 \/ Len(bookmarkResults) = 0

\* noteResults.length === 0 && bookmarkResults.length === 0
SemanticEmpty(noteResults, bookmarkResults) ==
    Len(noteResults) = 0 /\ Len(bookmarkResults) = 0

SearchLog(u, q, type) ==
    [user |-> u, query |-> q, type |-> type, textThrew |-> FALSE,
     semanticNotes |-> 0, semanticBookmarks |-> 0, embedded |-> FALSE,
     textFound |-> 0, rpcCalls |-> 0,
     text |-> 0, embedding |-> NoVector, called |-> FALSE, out |-> "none", now |-> 0,
     preEmbeddings |-> embeddings, postEmbeddings |-> embeddings]

\* What a call of getEmbeddingWithCache did, for the log.
Embedded(l, t, e, out, now) ==
    [l EXCEPT !.embedded = TRUE, !.text = t, !.embedding = e.embedding,
              !.called = e.called, !.out = IF e.called THEN out ELSE "none",
              !.now = now, !.postEmbeddings = e.cache]

FinishSearch(emb, r, l) ==
    /\ embeddings' = emb
    /\ searchResp' = r
    /\ searchLog' = l
    /\ UNCHANGED <<notes, bookmarks, updateResp, updateLog>>

\* Lines 270-364: the semantic search after a text search without results.
SemanticSearch(u, q, type, now, textResults, l) ==
    \E out \in EmbeddingOutcomes :
        LET e == getEmbeddingWithCache(embeddings, q, now, out)
            l1 == Embedded(l, q, e, out, now)
        IN  /\ (CacheValid(embeddings[EmbeddingKey(q)], now) => out = "ok")
            /\ \E rn \in RpcOutcomes, rb \in RpcOutcomes :
                  /\ ~InScope(type, "notes") => rn = "none"
                  /\ ~InScope(type, "bookmarks") => rb = "none"
                  /\ LET noteResults == IF InScope(type, "notes")
                                        THEN MatchRpc(notes, u, rn) ELSE <<>>
                         bookmarkResults == IF InScope(type, "bookmarks")
                                            THEN MatchRpc(bookmarks, u, rb) ELSE <<>>
                         l2 == [l1 EXCEPT !.semanticNotes = Len(noteResults),
                                          !.semanticBookmarks = Len(bookmarkResults),
                                          !.rpcCalls =
                                              Cardinality({t \in {"notes", "bookmarks"} :
                                                              InScope(type, t)})]
                     IN  IF SemanticEmpty(noteResults, bookmarkResults)
                         THEN FinishSearch(e.cache,
                                  SearchResponse(200, textResults.notes,
                                                 textResults.bookmarks, FALSE, TRUE), l2)
                         ELSE FinishSearch(e.cache,
                                  SearchResponse(200, noteResults, bookmarkResults,
                                                 FALSE, FALSE), l2)

\* POST of the search route, for an authenticated request of user u with
\* query q and the given type that arrives dt milliseconds after the
\* previous request.
Search(u, q, typeInput, dt) ==
    LET now == clock + dt
        type == DefaultType(typeInput)
        l0 == SearchLog(u, q, type)
    IN  /\ clock' = now
        /\ nreq' = nreq + 1
        /\ UNCHANGED <<analyzeVars, concurrentVars, hookVars>>
        /\ IF InvalidQuery(q) THEN
               FinishSearch(embeddings, SearchResponse(400, <<>>, <<>>, FALSE, FALSE), l0)
           ELSE \E threw \in BOOLEAN :
               IF threw THEN
                   SemanticSearch(u, q, type, now, NoTextResults,
                                  [l0 EXCEPT !.textThrew = TRUE])
               ELSE \E order \in ScanOrders :
                   LET textResults == performTextSearch(notes, bookmarks, q, type, u,
                                                        order, FALSE)
                       l1 == [l0 EXCEPT !.textFound = Len(textResults.notes)
                                                      + Len(textResults.bookmarks)]
                   IN  IF textResults.hasResults
                       THEN FinishSearch(embeddings,
                                SearchResponse(200, textResults.notes,
                                               textResults.bookmarks, TRUE, FALSE), l1)
                       ELSE SemanticSearch(u, q, type, now, textResults, l1)

(* The search/update route (src/unnamed/part_000 672-785).                 *)

UpdateLog(u, b) ==
    [user |-> u, body |-> b, embedded |-> FALSE,
     text |-> 0, embedding |-> NoVector, called |-> FALSE, out |-> "none", now |-> 0,
     preEmbeddings |-> embeddings, postEmbeddings |-> embeddings,
     preNotes |-> notes, preBookmarks |-> bookmarks]

FinishUpdate(nt, bt, emb, status, l) ==
    /\ notes' = nt
    /\ bookmarks' = bt
    /\ embeddings' = emb
    /\ updateResp' = status
    /\ updateLog' = l
    /\ UNCHANGED <<searchResp, searchLog>>

\* supabase.from(table).update({ embedding, embedding_cache_key, ... })
\*   .eq('id', id).eq('user_id', userId)
UpdateRows(table, id, userId, embedding, cacheKey) ==
    [k \in 1..Len(table) |->
        IF table[k].id = id /\ table[k].user_id = userId
        THEN [table[k] EXCEPT !.embedding = embedding, !.embedding_cache_key = cacheKey]
        ELSE table[k]]

\* POST of the search/update route, for an authenticated request of user u
\* with body b that arrives dt milliseconds after the previous request.
Update(u, b, dt) ==
    LET now == clock + dt
        body == UpdateBodies[b]
        l0 == UpdateLog(u, b)
    IN  /\ clock' = now
        /\ nreq' = nreq + 1
        /\ UNCHANGED <<analyzeVars, concurrentVars, hookVars>>
        /\ IF MissingFields(b) THEN
               FinishUpdate(notes, bookmarks, embeddings, 400, l0)
           ELSE \E out \in EmbeddingOutcomes :
               LET e == getEmbeddingWithCache(embeddings, UpdateText(b), now, out)
                   cacheKey == EmbeddingKey(UpdateText(b))
                   l1 == Embedded(l0, UpdateText(b), e, out, now)
               IN  /\ (CacheValid(embeddings[cacheKey], now) => out = "ok")
                   /\ IF body.type \notin {"note", "bookmark"} THEN
                          FinishUpdate(notes, bookmarks, e.cache, 400, l1)
                      ELSE \E updateError \in BOOLEAN :
                          IF updateError THEN
                              FinishUpdate(notes, bookmarks, e.cache, 500, l1)
                          ELSE IF body.type = "note" THEN
                              FinishUpdate(UpdateRows(notes, body.id, u, e.embedding, cacheKey),
                                           bookmarks, e.cache, 200, l1)
                          ELSE
                              FinishUpdate(notes,
                                           UpdateRows(bookmarks, body.id, u, e.embedding,
                                                      cacheKey),
                                           e.cache, 200, l1)

(* The client's search hook (src/lib/hooks/use-semantic-search.ts).        *)

minQueryLength == 3

NoResults == [t |-> "null", query |-> <<>>, type |-> "none"]

\* The body of the search route's answer to the query and the type.
Data(query, type) == [t |-> "data", query |-> query, type |-> type]

NoPending == [t |-> "null", query |-> <<>>, type |-> "none"]

NoFetch == [t |-> "none", query |-> <<>>, type |-> "none"]

\* The refs and the state the hook's functions read and write.
Hook ==
    [isSearching |-> isSearching, results |-> results, searchError |-> searchError,
     lastQueryRef |-> lastQueryRef, searchInProgressRef |-> searchInProgressRef,
     pendingSearchRef |-> pendingSearchRef, fetching |-> fetching,
     lastExecuted |-> lastExecuted]

SetHook(h) ==
    /\ isSearching' = h.isSearching
    /\ results' = h.results
    /\ searchError' = h.searchError
    /\ lastQueryRef' = h.lastQueryRef
    /\ searchInProgressRef' = h.searchInProgressRef
    /\ pendingSearchRef' = h.pendingSearchRef
    /\ fetching' = h.fetching
    /\ lastExecuted' = h.lastExecuted

HookFrame == UNCHANGED <<analyzeVars, searchVars, concurrentVars, clock, nreq>>

RECURSIVE executeSearch(_, _, _)
RECURSIVE performSearch(_, _, _)
RECURSIVE Completed(_)

\* executeSearch after the await of performSearch (lines 80-86).
Completed(h) ==
    LET h1 == [h EXCEPT !.searchInProgressRef = FALSE]
    IN  IF h.pendingSearchRef.t # "null"
        THEN executeSearch([h1 EXCEPT !.pendingSearchRef = NoPending],
                           h.pendingSearchRef.query, h.pendingSearchRef.type)
        ELSE h1

\* performSearch up to its fetch (lines 90-112).
performSearch(h, query, type) ==
    IF Len(Trim(query)) = 0 \/ Len(Trim(query)) < minQueryLength
    THEN Completed([h EXCEPT !.results = NoResults])
    ELSE [h EXCEPT !.isSearching = TRUE, !.searchError = "null",
                   !.fetching = [t |-> "fetch", query |-> query, type |-> type]]

\* executeSearch up to its await (lines 62-78).
executeSearch(h, query, type) ==
    LET h0 == [h EXCEPT !.lastExecuted = query]
    IN  IF query = h.lastQueryRef THEN h0
        ELSE IF h.searchInProgressRef
        THEN [h0 EXCEPT !.pendingSearchRef = [t |-> "search", query |-> query, type |-> type]]
        ELSE performSearch([h0 EXCEPT !.searchInProgressRef = TRUE, !.lastQueryRef = query],
                           query, type)

\* The effect on debouncedSearchQuery and searchType (lines 52-59).
Effect(h, debounced, type) ==
    IF debounced # <<>> /\ Len(Trim(debounced)) >= minQueryLength
    THEN executeSearch(h, debounced, type)
    ELSE IF Trim(debounced) = <<>> THEN [h EXCEPT !.results = NoResults]
    ELSE h

\* The user types: setSearchQuery(query).
SetSearchQuery(query) ==
    /\ query # searchQuery
    /\ searchQuery' = query
    /\ resetActive' = FALSE
    /\ UNCHANGED <<searchType, isSearching, results, searchError, lastQueryRef,
                   searchInProgressRef, pendingSearchRef, debouncedSearchQuery, fetching,
                   lastExecuted>>
    /\ HookFrame

\* The user picks a type: setSearchType(type), and the effect runs.
SetSearchType(type) ==
    /\ type # searchType
    /\ searchType' = type
    /\ SetHook(Effect(Hook, debouncedSearchQuery, type))
    /\ UNCHANGED <<searchQuery, debouncedSearchQuery, resetActive>>
    /\ HookFrame

\* The debounce delay has passed since searchQuery changed last:
\* debouncedSearchQuery takes its value, and the effect runs.
Debounce ==
    /\ debouncedSearchQuery # searchQuery
    /\ debouncedSearchQuery' = searchQuery
    /\ SetHook(Effect(Hook, searchQuery, searchType))
    /\ UNCHANGED <<searchQuery, searchType, resetActive>>
    /\ HookFrame

\* The fetch of performSearch settles (lines 114-150), and executeSearch
\* goes on after its await.
Arrive(outcome) ==
    /\ fetching.t = "fetch"
    /\ LET h1 == [Hook EXCEPT !.fetching = NoFetch, !.isSearching = FALSE]
           h2 == IF outcome = "ok"
                 THEN [h1 EXCEPT !.results = Data(fetching.query, fetching.type)]
                 ELSE IF outcome = "abort"
                 THEN [h1 EXCEPT !.searchError = "Search request timed out"]
                 ELSE [h1 EXCEPT !.searchError = "Failed to perform search"]
       IN  SetHook(Completed(h2))
    /\ UNCHANGED <<searchQuery, searchType, debouncedSearchQuery, resetActive>>
    /\ HookFrame

\* resetSearch (lines 154-159).
resetSearch ==
    /\ searchQuery' = <<>>
    /\ results' = NoResults
    /\ searchError' = "null"
    /\ lastQueryRef' = <<>>
    /\ resetActive' = TRUE
    /\ UNCHANGED <<searchType, isSearching, searchInProgressRef, pendingSearchRef,
                   debouncedSearchQuery, fetching, lastExecuted>>
    /\ HookFrame

InitHook ==
    /\ searchQuery = <<>>
    /\ searchType = "all"
    /\ isSearching = FALSE
    /\ results = NoResults
    /\ searchError = "null"
    /\ lastQueryRef = <<>>
    /\ searchInProgressRef = FALSE
    /\ pendingSearchRef = NoPending
    /\ debouncedSearchQuery = <<>>
    /\ fetching = NoFetch
    /\ lastExecuted = <<>>
    /\ resetActive = FALSE

(* The tables the search runs on.                                          *)

Row(id, owner, title, body) ==
    [id |-> id, user_id |-> owner, title |-> title, body |-> body,
     embedding |-> NoVector, embedding_cache_key |-> 0]

\* Notes of one title, every eleventh with the title's word in its content.
SameTitleNote(i) == Row(i, "u1", 1, IF i % 11 = 0 THEN 4 ELSE 5)

\* Notes of the two users with the word in the title, in a longer title, in
\* the content, or nowhere.
MixedNote(i) ==
    IF i % 5 = 1 THEN Row(i, "u1", 1, 5)
    ELSE IF i % 5 = 2 THEN Row(i, "u1", 2, 5)
    ELSE IF i % 5 = 3 THEN Row(i, "u1", 3, 4)
    ELSE IF i % 5 = 4 THEN Row(i, "u2", 1, 5)
    ELSE Row(i, "u1", 3, 5)

NotesTables ==
    {[i \in 1..n |-> SameTitleNote(i)] : n \in 0..MaxNotes}
    \cup {[i \in 1..n |-> MixedNote(i)] : n \in 0..MaxNotes}

Bookmark(i) == IF i % 2 = 1 THEN Row(i, "u1", 3, 7) ELSE Row(i, "u1", 1, 6)

BookmarksTables == {[i \in 1..n |-> Bookmark(i)] : n \in 0..MaxBookmarks}

-----------------------------------------------------------------------------
(* Specifications.                                                         *)

NoResponse == Response(0, -1, "none", ResponseBody(JsonStringify(NoPayload)))

InitSearch(NotesChoices, BookmarksChoices) ==
    /\ notes \in NotesChoices
    /\ bookmarks \in BookmarksChoices
    /\ embeddings = [k \in EmbeddingKeys |-> NoRow]
    /\ searchResp = NoSearchResponse
    /\ searchLog = SearchLog("u1", 0, "all")
    /\ updateResp = 0
    /\ updateLog = UpdateLog("u1", 0)
    /\ InitHook

InitAnalyze(Configured) ==
    /\ inflight = [p \in Slots |-> Idle]
    /\ invoked = [k \in CacheKeys |-> 0]
    /\ redis \in Configured
    /\ clock = StartClock
    /\ counts = [x \in Users |-> NoKey]
    /\ lastTimes = [x \in Users |-> NoKey]
    /\ cache = [k \in CacheKeys |-> NoEntry]
    /\ resp = NoResponse
    /\ admittedInWindow = [x \in Users |-> 0]
    /\ lastArrival = [x \in Users |-> 0]
    /\ retryDue = [x \in Users |-> 0]
    /\ nreq = 0
    /\ log = [BaseLog("u1", 1, StartClock, counts, lastTimes, cache) EXCEPT !.content = 0]

\* The analyze endpoint on its own: no note and no bookmark is stored.
InitWith(Configured) == InitAnalyze(Configured) /\ InitSearch({<<>>}, {<<>>})

Init == InitWith(BOOLEAN)

GoodGraphOnly == {GraphText("good", FALSE)}

\* Every kind of body and every provider outcome, one user, requests 10 s apart.
Next ==
    /\ nreq < MaxRequests
    /\ \E c \in Contents \ {6} :
           Analyze("u1", c, 10000, {"S1", "empty", "noresponse", "timeout"},
                   GraphOutcomes, BOOLEAN)

Spec == Init /\ [][Next]_vars

\* Two users, requests 0.2 s, 9.9 s and 10 s apart, the provider answering.
NextCooldown ==
    /\ nreq < MaxCooldownRequests
    /\ \E u \in Users, dt \in {200, 9900, 10000} :
           Analyze(u, 4, dt, {"S1"}, GoodGraphOnly, {TRUE})

SpecCooldown == InitWith({TRUE}) /\ [][NextCooldown]_vars

\* Long runs of requests: those of u1 come 10 s or a whole window after the
\* previous request, those of u2 10 s after it.
NextQuota ==
    /\ nreq < MaxQuotaRequests
    /\ \E u \in Users, dt \in {10000, WINDOW_DURATION * 1000} :
           /\ u = "u2" => dt = 10000
           /\ Analyze(u, 5, dt, {"S1", "timeout"}, GoodGraphOnly, {TRUE})

SpecQuota == InitWith({TRUE}) /\ [][NextQuota]_vars

\* Two users, the two contents with one cache key, requests 10 s or the
\* cache's time to live apart.
NextCache ==
    /\ nreq < MaxCacheRequests
    /\ \E u \in Users, c \in {5, 6}, dt \in {10000, CACHE_TTL_SECONDS * 1000} :
           Analyze(u, c, dt, {"S1", "S2", "timeout"}, GoodGraphOnly, {TRUE})

SpecCache == InitWith({TRUE}) /\ [][NextCache]_vars

\* No store configured: one user, requests in the same millisecond, 0.2 s
\* and 10 s apart, more of them than the quota.
NextNoStore ==
    /\ nreq < MaxNoStoreRequests
    /\ \E c \in {3, 5}, dt \in {0, 200, 10000} :
           Analyze("u1", c, dt, {"S1", "timeout"}, GoodGraphOnly, {TRUE})

SpecNoStore == InitWith({FALSE}) /\ [][NextNoStore]_vars

\* Two users, requests 3.4 s and 10 s apart, and the retry of a rejected
\* request exactly retryAfter seconds after the rejection.
NextRetry ==
    /\ nreq < MaxRetryRequests
    /\ \/ \E u \in Users, dt \in {3400, 10000} :
              /\ u = "u2" => dt = 10000
              /\ Analyze(u, 5, dt, {"S1"}, GoodGraphOnly, {TRUE})
       \/ \E u \in Users :
              /\ retryDue[u] > 0
              /\ retryDue[u] >= clock
              /\ Analyze(u, 5, retryDue[u] - clock, {"S1"}, GoodGraphOnly, {TRUE})

SpecRetry == InitWith({TRUE}) /\ [][NextRetry]_vars

\* Searches of u1 over tables of up to MaxNotes notes and MaxBookmarks
\* bookmarks, one second apart.
NextSearch ==
    /\ nreq < MaxSearches
    /\ \E q \in Queries, typeInput \in TypeInputs : Search("u1", q, typeInput, 1000)

\* One user, requests 10 s apart, the store failing at any of its operations
\* in some of them.
NextStoreFailure ==
    /\ nreq < MaxStoreFailureRequests
    /\ \/ Analyze("u1", 5, 10000, {"S1", "timeout"}, GoodGraphOnly, {TRUE})
       \/ \E op \in StoreOps :
              AnalyzeStoreFailure("u1", 5, 10000, op, {"S1", "timeout"}, GoodGraphOnly)

SpecStoreFailure == InitWith({TRUE}) /\ [][NextStoreFailure]_vars

\* Up to two requests of u1 in flight at a time, with the same content; a
\* request arrives with another one in flight, or 0 s or 10 s after the
\* previous one when none is.
NextConcurrent ==
    \/ /\ nreq < MaxConcurrentRequests
       /\ \E p \in Slots, dt \in {0, 10000} : Start(p, "u1", 5, dt)
    \/ \E p \in Slots :
          \/ GetCount(p)
          \/ GetLast(p)
          \/ SetLast(p)
          \/ GetCache(p)
          \/ Incr(p)
          \/ Expire(p)
          \/ CallProvider(p)
          \/ SetCache(p)

SpecConcurrent == InitWith({TRUE}) /\ [][NextConcurrent]_vars

\* Searches and updates of u1 over three notes and a bookmark, half the
\* embedding cache's time to live or all of it apart.
NextEmbedding ==
    /\ nreq < MaxEmbeddingRequests
    /\ \E dt \in {(CACHE_TTL \div 2) * 1000, CACHE_TTL * 1000} :
          \/ \E q \in {3, 5} : Search("u1", q, "undefined", dt)
          \/ \E b \in 1..Len(UpdateBodies) : Update("u1", b, dt)

SpecEmbedding ==
    /\ InitAnalyze({TRUE})
    /\ InitSearch({[i \in 1..3 |-> MixedNote(i)]}, {[i \in 1..1 |-> Bookmark(i)]})
    /\ [][NextEmbedding]_vars

\* The search hook of one page: the user types, picks a type and clears the
\* search while the answers of the search route arrive.
NextHook ==
    \/ \E query \in {<<>>, <<" ">>, <<"a","b">>, <<"a","l","p","h","a">>,
                     <<"b","e","t","a">>} :
          SetSearchQuery(query)
    \/ \E type \in {"all", "notes"} : SetSearchType(type)
    \/ Debounce
    \/ \E outcome \in {"ok", "error", "abort"} : Arrive(outcome)
    \/ resetSearch

SpecHook == InitWith({TRUE}) /\ [][NextHook]_vars

SpecSearch ==
    InitAnalyze({TRUE}) /\ InitSearch(NotesTables, BookmarksTables) /\ [][NextSearch]_vars

-----------------------------------------------------------------------------
(* Properties.  log and resp describe the request handled last; log.content *)
(* is 0 before the first request.                                          *)

Handled == log.content # 0

Ids(g) == {g.concepts[k].id : k \in 1..Len(g.concepts)}

EndpointsExist(g) ==
    \A k \in 1..Len(g.relationships) :
        g.relationships[k].source \in Ids(g) /\ g.relationships[k].target \in Ids(g)

\* C1: with the store configured, the counter of a user equals the number of
\* requests admitted since the counter key was created, never more than
\* MAX_REQUESTS_PER_USER, and a request that arrives after
\* MAX_REQUESTS_PER_USER admitted ones in a window still running is rejected
\* with status 429 and a positive retryAfter.
C1_QuotaCount ==
    /\ \A u \in Users :
           Alive(counts[u], clock) =>
               /\ counts[u].val = admittedInWindow[u]
               /\ counts[u].val <= MAX_REQUESTS_PER_USER
    /\ (Handled /\ log.valid /\ log.preAdmitted = MAX_REQUESTS_PER_USER) =>
           /\ resp.status = 429
           /\ resp.retryAfter > 0
           /\ ~log.admitted

C1_Witness ==
    /\ Handled /\ log.valid /\ log.preAdmitted = MAX_REQUESTS_PER_USER
    /\ resp.status = 429
    /\ counts[log.user].val = MAX_REQUESTS_PER_USER

\* Milliseconds between the arrival of the last request and the arrival of
\* the user's last admitted request before it.
ElapsedMs == log.arrival - log.preArrival

CooldownCase ==
    /\ Handled /\ redis /\ log.valid
    /\ log.preArrival > 0
    /\ log.preCount < MAX_REQUESTS_PER_USER

\* C2 as stated: a request less than 10 s after the user's last admitted one
\* is rejected with retryAfter = 10 minus the elapsed seconds, one 10 s or
\* more after it is admitted.
C2_Original ==
    CooldownCase =>
        IF ElapsedMs < MINIMUM_REQUEST_INTERVAL * 1000
        THEN /\ resp.status = 429
             /\ resp.retryAfter = MINIMUM_REQUEST_INTERVAL - (ElapsedMs \div 1000)
        ELSE log.admitted /\ resp.status = 200

\* Whole seconds between the two arrivals, each truncated to the second.
ElapsedSeconds == (log.arrival \div 1000) - (log.preArrival \div 1000)

\* C2 as amended: with both arrival times truncated to whole seconds, a
\* request whose second is less than 10 after the second of the user's last
\* admitted request is rejected with status 429 and retryAfter = 10 minus
\* that difference, and one whose second is 10 or more after it is admitted.
C2_Cooldown ==
    CooldownCase =>
        IF ElapsedSeconds < MINIMUM_REQUEST_INTERVAL
        THEN /\ resp.status = 429
             /\ resp.retryAfter = MINIMUM_REQUEST_INTERVAL - ElapsedSeconds
             /\ ~log.admitted
        ELSE log.admitted /\ resp.status = 200

C2_Witness ==
    /\ CooldownCase
    /\ log.gate = "cooldown"
    /\ ElapsedSeconds > 0
    /\ resp.retryAfter = MINIMUM_REQUEST_INTERVAL - ElapsedSeconds

\* C3: an admitted request with valid content whose provider calls all fail
\* is answered 200 with a non-empty summary and a graph of concepts and
\* relationships whose endpoints exist; never with a 5xx status.
C3_ProviderFailure ==
    (Handled /\ log.valid /\ log.admitted /\ log.summaryThrew) =>
        /\ resp.status = 200
        /\ resp.body.text = "json"
        /\ resp.body.val.summary # <<>>
        /\ DOMAIN resp.body.val.graphData = {"concepts", "relationships"}
        /\ EndpointsExist(resp.body.val.graphData)

C3_Witness ==
    /\ Handled /\ log.valid /\ log.admitted /\ log.summaryThrew
    /\ redis
    /\ log.providerCalls = 1
    /\ resp.status = 200
    /\ Len(resp.body.val.graphData.relationships) > 0

\* The cache entry the last request found under its key, when that entry was
\* written for the same content with both pieces from the provider.
FoundProviderEntry ==
    /\ Handled /\ redis /\ log.valid /\ log.admitted
    /\ log.preCache[CacheKey(log.content)].present
    /\ log.preCache[CacheKey(log.content)].from = log.content
    /\ log.preCache[CacheKey(log.content)].summarySrc = "provider"
    /\ log.preCache[CacheKey(log.content)].graphSrc = "provider"

\* C4 as stated: the next admitted request with the same content within the
\* 24 hours is answered with the body of the first response and without a
\* provider call.
C4_Original ==
    FoundProviderEntry =>
        /\ log.hit
        /\ log.providerCalls = 0
        /\ resp.status = 200
        /\ resp.body = [text |-> "json", val |-> log.preCache[CacheKey(log.content)].val]

\* C5 as stated: a cache hit returns a payload computed from the content of
\* the request itself.
C5_Original == (Handled /\ log.hit) => log.hitFrom = log.content

\* C6: a body whose content is empty or not a string is answered 400, one
\* longer than MAX_CONTENT_LENGTH 413, one of exactly MAX_CONTENT_LENGTH
\* characters neither; a 400 or 413 changes no key of the store and runs
\* neither a store operation, nor a provider call, nor a local generator.
C6_Validation ==
    Handled =>
        /\ (ContentTable[log.content].t # "string" \/ LengthTable[log.content] = 0)
               => resp.status = 400
        /\ (ContentTable[log.content].t = "string"
               /\ LengthTable[log.content] > MAX_CONTENT_LENGTH) => resp.status = 413
        /\ (ContentTable[log.content].t = "string"
               /\ LengthTable[log.content] = MAX_CONTENT_LENGTH)
               => (log.valid /\ resp.status \notin {400, 413})
        /\ resp.status \in {400, 413} =>
               /\ counts = log.preCounts
               /\ lastTimes = log.preLastTimes
               /\ cache = log.preCache
               /\ log.storeOps = {}
               /\ log.providerCalls = 0
               /\ log.localRuns = 0

C6_Witness ==
    /\ Handled /\ redis
    /\ resp.status = 413
    /\ counts[log.user].present
    /\ \E k \in CacheKeys : cache[k].present

\* C7 as stated: in every 200 response the endpoints of every relationship
\* are ids of concepts of the same graph.
C7_Original ==
    (Handled /\ resp.status = 200 /\ resp.body.text = "json") =>
        EndpointsExist(resp.body.val.graphData)

\* C8 as stated: a 200 response with a piece from the local generators
\* carries a notice.
C8_Original ==
    (Handled /\ resp.status = 200 /\ (log.summarySrc = "local" \/ log.graphSrc = "local")) =>
        resp.body.val.notice # ""

\* C9 as stated: the retryAfter of a quota rejection is the time left until
\* the counter key expires (in seconds, rounded either way).
C9_Original ==
    (Handled /\ log.gate = "quota") =>
        \/ resp.retryAfter = log.preTtl \div 1000
        \/ resp.retryAfter = (log.preTtl + 999) \div 1000

\* C10: with the store configured, a request answered 200, from the cache or
\* not, leaves the user's counter one above the value it read, with a
\* running expiry, and last_request_time at its arrival time in seconds.
C10_AdmittedCounts ==
    (Handled /\ redis /\ resp.status = 200) =>
        /\ log.admitted
        /\ Alive(counts[log.user], clock)
        /\ counts[log.user].val = log.preCount + 1
        /\ Alive(lastTimes[log.user], clock)
        /\ lastTimes[log.user].val = log.arrival \div 1000

C10_Witness ==
    /\ Handled /\ redis /\ resp.status = 200
    /\ log.hit
    /\ log.preCount >= 1
    /\ counts[log.user].val = log.preCount + 1

\* C11: without a store, every request with valid content is admitted and
\* answered 200, never 429, whatever the number and the spacing of the
\* requests; no store operation runs and no key is created.
C11_NoStore ==
    (Handled /\ ~redis /\ log.valid) =>
        /\ log.admitted
        /\ resp.status = 200
        /\ log.storeOps = {}
        /\ ~log.stored
        /\ \A u \in Users : ~counts[u].present /\ ~lastTimes[u].present
        /\ \A k \in CacheKeys : ~cache[k].present

\* More requests than the quota, all of one user, some less than 10 s apart.
C11_Witness ==
    /\ Handled /\ ~redis /\ log.valid
    /\ nreq > MAX_REQUESTS_PER_USER
    /\ clock - StartClock < nreq * MINIMUM_REQUEST_INTERVAL * 1000
    /\ resp.status = 200

\* The last request is the retry of the user's previous request, a 429, and
\* arrives exactly retryAfter seconds after it.
IsRetry == Handled /\ redis /\ log.valid /\ log.preRetryDue > 0 /\ log.arrival = log.preRetryDue

\* C12: a valid request that a user sends exactly retryAfter seconds after a
\* 429 of that user, with no request of that user in between, is admitted.
C12_RetryAdmitted == IsRetry => (log.admitted /\ resp.status = 200)

\* A retry after a cooldown rejection, off the whole second.
C12_Witness ==
    /\ IsRetry
    /\ log.admitted
    /\ log.preRetryDue - log.preArrival < WINDOW_DURATION * 1000
    /\ log.arrival % 1000 # 0
    /\ log.preCount >= 1

(* The search route.  searchLog and searchResp describe the search handled *)
(* last; searchLog.query is 0 before the first search.                     *)

Searched == searchLog.query # 0

TextMode == Searched /\ searchResp.status = 200 /\ searchResp.textSearch

\* The score of the highest tier that the row matches for the query of the
\* last search, 0 if it matches none.
HighestTier(row) ==
    LET m == ILikeTable[searchLog.query]
    IN  IF m[row.title].exact THEN EXACT_TITLE_SIMILARITY
        ELSE IF m[row.title].like THEN PARTIAL_TITLE_SIMILARITY
        ELSE IF m[row.body].like THEN BODY_SIMILARITY
        ELSE 0

\* list is a list of results drawn from table (the id of a row is its index).
TierRanked(list, table) ==
    /\ \A k, m \in 1..Len(list) : k # m => list[k].id # list[m].id
    /\ \A k \in 1..Len(list) : list[k].similarity = HighestTier(table[list[k].id])
    /\ \A k \in 1..(Len(list) - 1) : list[k].similarity >= list[k + 1].similarity
    /\ \A k, m \in 1..Len(list) :
           (HighestTier(table[list[k].id]) = EXACT_TITLE_SIMILARITY
               /\ HighestTier(table[list[m].id]) < EXACT_TITLE_SIMILARITY) => k < m

\* C13 as stated: in a text-search response every id appears once in its
\* list with the score of the highest tier it matched, each list is ordered
\* by non-increasing score, and a note whose title matches exactly comes
\* before every note that matched only partially or by content.
C13_Original ==
    TextMode => (TierRanked(searchResp.notes, notes)
                    /\ TierRanked(searchResp.bookmarks, bookmarks))

\* Whether some row of the user in a table in scope matches the query of the
\* last search in its title or its body.
MatchesText(row) ==
    /\ row.user_id = searchLog.user
    /\ HighestTier(row) > 0

TextFound ==
    /\ ~searchLog.textThrew
    /\ \/ InScope(searchLog.type, "notes") /\ \E k \in 1..Len(notes) : MatchesText(notes[k])
       \/ InScope(searchLog.type, "bookmarks")
              /\ \E k \in 1..Len(bookmarks) : MatchesText(bookmarks[k])

SimilarityFound == searchLog.semanticNotes > 0 \/ searchLog.semanticBookmarks > 0

\* C14: a 200 search response is in exactly one mode: text (textSearch flag)
\* exactly when the text search found a result in scope; otherwise semantic
\* (no flag) exactly when the similarity search returned a result; otherwise
\* fallback (fallback flag), with both lists empty.
C14_Modes ==
    (Searched /\ searchResp.status = 200) =>
        /\ ~(searchResp.textSearch /\ searchResp.fallback)
        /\ searchResp.textSearch <=> TextFound
        /\ (~searchResp.textSearch /\ ~searchResp.fallback)
               <=> (~TextFound /\ SimilarityFound)
        /\ searchResp.fallback <=> (~TextFound /\ ~SimilarityFound)
        /\ searchResp.fallback =>
               (searchResp.notes = <<>> /\ searchResp.bookmarks = <<>>)
        /\ searchResp.textSearch => ~searchLog.embedded

\* A semantic response with results from one table only, over tables that
\* hold notes and bookmarks of the user.
C14_Witness ==
    /\ Searched /\ searchResp.status = 200
    /\ ~searchResp.textSearch /\ ~searchResp.fallback
    /\ searchLog.type = "all"
    /\ Len(notes) > 0 /\ Len(bookmarks) > 0
    /\ searchResp.notes = <<>> /\ searchResp.bookmarks # <<>>

\* C15 as stated: whatever the interleaving of a user's requests, the user's
\* request_count never exceeds MAX_REQUESTS_PER_USER and no more than
\* MAX_REQUESTS_PER_USER requests are admitted while the counter key runs.
C15_Original ==
    \A u \in Users :
        /\ Alive(counts[u], clock) => counts[u].val <= MAX_REQUESTS_PER_USER
        /\ admittedInWindow[u] <= MAX_REQUESTS_PER_USER

\* C16 as stated: while a cache entry's 24 hours run and the provider
\* answers, at most one request per content fingerprint calls the provider.
C16_Original == \A k \in CacheKeys : invoked[k] <= 1

\* C17 as stated: when only one of the two provider calls fails, the response
\* holds the local output for that piece and the provider's output for the
\* other one.
C17_Original ==
    (Handled /\ log.valid /\ log.admitted /\ ~log.hit /\ resp.status = 200) =>
        /\ (log.summaryThrew /\ log.graphAvailable) =>
               (log.summarySrc = "local" /\ log.graphSrc = "provider")
        /\ (~log.summaryThrew /\ ~log.graphAvailable) =>
               (log.summarySrc = "provider" /\ log.graphSrc = "local")

\* C18 as stated: no cache entry holds a result with a piece from the local
\* generators (every entry is written with the full 24 hours).
C18_Original ==
    \A k \in CacheKeys :
        Alive(cache[k], clock) =>
            (cache[k].summarySrc = "provider" /\ cache[k].graphSrc = "provider")

\* C19 as stated: a request answered with the local generators' output that
\* found no cache entry for its content leaves that output in the cache.
C19_Original ==
    (Handled /\ redis /\ log.valid /\ log.admitted /\ resp.status = 200
        /\ log.summarySrc = "local"
        /\ ~log.preCache[CacheKey(log.content)].present) =>
        /\ Alive(cache[CacheKey(log.content)], clock)
        /\ cache[CacheKey(log.content)].val = resp.body.val

\* C20 as stated: a request during which a store operation fails is
\* answered 500.
C20_Original == (Handled /\ log.failedOp # "none") => resp.status = 500

\* C21: a request answered 429, by either gate, leaves every key of the store
\* as it found it (the user's counter, its expiry and last_request_time
\* included), reads only the keys of the gates, and runs neither a cache
\* operation, nor a provider call, nor a local generator.
C21_RejectFrame ==
    (Handled /\ resp.status = 429) =>
        /\ log.gate \in {"quota", "cooldown"}
        /\ ~log.admitted
        /\ counts = log.preCounts
        /\ lastTimes = log.preLastTimes
        /\ cache = log.preCache
        /\ log.storeOps \subseteq {"get count", "get last"}
        /\ log.providerCalls = 0
        /\ log.localRuns = 0
        /\ ~log.stored /\ ~log.hit

\* A quota rejection with the counter, last_request_time and a cache entry
\* in the store.
C21_Witness ==
    /\ Handled /\ resp.status = 429
    /\ log.gate = "quota"
    /\ Alive(counts[log.user], clock)
    /\ counts[log.user].exp = log.arrival + log.preTtl
    /\ Alive(lastTimes[log.user], clock)
    /\ Alive(cache[CacheKey(log.content)], clock)

\* C22 as stated: an admitted request that finds the user's counter running
\* increments it and leaves its expiry where it was.
C22_Original ==
    (Handled /\ redis /\ log.admitted /\ log.preTtl > 0) =>
        /\ counts[log.user].val = log.preCount + 1
        /\ counts[log.user].exp = log.arrival + log.preTtl

\* C23 as stated: after a request no rate-limit key is stored without a
\* time to live.
C23_Original ==
    \A u \in Users :
        /\ counts[u].present => counts[u].exp # NoTTL
        /\ lastTimes[u].present => lastTimes[u].exp # NoTTL

(* C24: fetch-or-compute of an embedding follows a strict priority.  A     *)
(* cached entry whose created_at is less than 7 days old is returned and   *)
(* the provider is not called; otherwise the provider's result is returned *)
(* and is written to the cache; when the provider fails, an expired entry  *)
(* is returned if there is one; and the locally computed vector is         *)
(* returned only when there is no entry at all.                            *)

C25_Original ==
    updateResp = 200 =>
        LET body == UpdateBodies[updateLog.body]
            table == IF body.type = "note" THEN notes ELSE bookmarks
        IN  \A k \in 1..Len(table) :
                (table[k].id = body.id /\ table[k].user_id = updateLog.user) =>
                    /\ table[k].embedding.src \in {"provider", "simple"}
                    /\ ToLowerCase(Trim(EmbedTexts[table[k].embedding.of]))
                          = ToLowerCase(Trim(ContentToEmbed(updateLog.body)))

(* C26: a search/update request whose type is neither "note" nor           *)
(* "bookmark" is answered 400, the provider is not called for it, and it   *)
(* writes neither the embedding cache nor the rows.                        *)

C26_Original ==
    (updateLog.body # 0 /\ UpdateBodies[updateLog.body].type \notin {"note", "bookmark"}) =>
        /\ updateResp = 400
        /\ ~updateLog.called
        /\ updateLog.postEmbeddings = updateLog.preEmbeddings
        /\ notes = updateLog.preNotes
        /\ bookmarks = updateLog.preBookmarks

(* C27: when the text search finds a result in scope, the search handler   *)
(* answers with it: it neither reads nor writes the embedding cache, does  *)
(* not call the embedding provider and does not run the similarity search. *)

C27_TextShortCircuit ==
    searchLog.textFound > 0 =>
        /\ searchResp.status = 200
        /\ searchResp.textSearch
        /\ Len(searchResp.notes) + Len(searchResp.bookmarks) = searchLog.textFound
        /\ ~searchLog.embedded
        /\ ~searchLog.called
        /\ searchLog.postEmbeddings = searchLog.preEmbeddings
        /\ searchLog.rpcCalls = 0

\* A text match for a query whose embedding is in the cache, expired.
C27_Witness ==
    /\ searchLog.textFound > 0
    /\ searchResp.textSearch
    /\ \E k \in EmbeddingKeys :
          /\ CacheKeyTextTable[k] = CacheKeyTextTable[searchLog.query]
          /\ searchLog.preEmbeddings[k].present
          /\ clock - searchLog.preEmbeddings[k].created_at >= CACHE_TTL * 1000

(* C28: in a locally generated concept graph with more than one concept no *)
(* relationship has the same concept for its source and its target,        *)
(* whatever number of connections (1 to 3) is drawn for each concept.      *)

C28_Original ==
    (Handled /\ resp.status = 200 /\ resp.body.text = "json" /\ log.graphSrc = "local"
        /\ Len(resp.body.val.graphData.concepts) > 1) =>
        \A k \in 1..Len(resp.body.val.graphData.relationships) :
            resp.body.val.graphData.relationships[k].source
                # resp.body.val.graphData.relationships[k].target

(* C29: in the search hook, once no search is in flight and none is        *)
(* pending, the results displayed are those of the query executeSearch was *)
(* called with last, the latest debounced query (taken here for the case   *)
(* that the field holds that query and no error is displayed).             *)

C29_Original ==
    (/\ fetching = NoFetch
     /\ ~searchInProgressRef
     /\ pendingSearchRef = NoPending
     /\ searchError = "null"
     /\ lastExecuted # <<>>
     /\ lastExecuted = debouncedSearchQuery
     /\ debouncedSearchQuery = searchQuery) =>
        /\ results.t = "data"
        /\ results.query = lastExecuted

(* C30: after resetSearch the results stay null until the user enters a    *)
(* new query; a search that was in flight or pending at the reset does not *)
(* fill them again.                                                        *)

C30_Original == resetActive => results = NoResults

====
